---- MODULE Spec2Model ----
\* FlightSearchService of src/src/flight_search_server_clean.py as a state machine:
\* the token cache, the live-or-mock decision of search_flights, and the coroutines
\* that call them, interleaved at their await points (one asyncio event loop: the
\* code between two awaits of a coroutine runs without interruption).
\* Spec and FairSpec are the service under concurrent search_flights calls; ToolSpec
\* is one client's search_flights or find_best_price call with any arguments;
\* DemoSpec is the mock generators of both server files over all airport pairs;
\* RecordSpec is every way a flight record is made, the normalizer included.
EXTENDS Integers, Sequences, FiniteSets, TLC

\* ---------------------------------------------------------------- bounds

\* Concurrent tool invocations (each runs the tool function search_flights).
NumCallers == 1
\* The clock runs from 0 to MaxTime seconds.
MaxTime == 60
\* Offers in one flight-offers payload.
MaxOffers == 2
\* Flight-offers answers with records that the upstream gives to one find_best_price scan.
MaxLiveAnswers == 1
\* Segments of the first itinerary of an offer given to the normalizer.
MaxSegments == 3

\* The clock advances in steps of this many seconds.
Steps == {30}
\* expires_in values the token endpoint answers with (seconds).
TTLs == {30, 90}

\* ------------------------------------------------------ program constants

\* None, for every Optional value: <<>> is None and <<x>> is the value x.
None == <<>>
Some(x) == <<x>>
IsSet(x) == x /= None

\* timedelta(seconds=expires_in - 60)
Margin == 60
\* token_data.get('expires_in', 3600)
DefaultExpiresIn == 3600
\* amadeus_data.get('data', [])[:5]
ParseCap == 5

\* The keys of AIRPORT_DATABASE.
AIRPORT_DATABASE ==
    {"LAX", "JFK", "LHR", "NRT", "DXB", "SFO", "IND", "LOS", "ATL", "ORD", "CDG", "FRA"}

\* "if (end_dt - start_dt).days > 30"
MaxRangeDays == 30

\* The keys of AIRPORT_DATABASE in flight_search_server.py.
AIRPORT_DATABASE_full == AIRPORT_DATABASE \cup {"DEN", "MIA"}

\* AIRPORT_DATABASE[code]["country"], the same in both files for the codes they share.
Country ==
    [a \in AIRPORT_DATABASE_full |->
        CASE a = "LHR" -> "United Kingdom"
          [] a = "NRT" -> "Japan"
          [] a = "DXB" -> "United Arab Emirates"
          [] a = "LOS" -> "Nigeria"
          [] a = "CDG" -> "France"
          [] a = "FRA" -> "Germany"
          [] OTHER -> "United States"]

\* _is_long_haul_route: continent_mapping.get(country, "Unknown").
continent_mapping(country) ==
    CASE country = "United States" -> "North America"
      [] country \in {"United Kingdom", "France", "Germany"} -> "Europe"
      [] country \in {"Japan", "United Arab Emirates"} -> "Asia"
      [] country = "Nigeria" -> "Africa"
      [] OTHER -> "Unknown"

\* str.upper() on the codes the inputs use.
Upper(code) ==
    CASE code = "lax" -> "LAX"
      [] code = "jfk" -> "JFK"
      [] code = "xxx" -> "XXX"
      [] OTHER -> code

\* The startup task (test_api_connection) is process 0; the callers are 1..NumCallers.
StartupTask == 0
Callers == 1..NumCallers
Procs == {StartupTask} \cup Callers

\* ------------------------------------------------------------- the inputs

\* Arguments of a search_flights tool call; "XXX" is in no directory.
SearchInputs ==
    { [origin |-> "LAX", destination |-> "JFK", departure_date |-> "2024-12-15", passengers |-> 1],
      [origin |-> "LAX", destination |-> "XXX", departure_date |-> "2024-12-15", passengers |-> 1],
      [origin |-> "XXX", destination |-> "JFK", departure_date |-> "2024-12-15", passengers |-> 1] }

\* A date argument as the client writes it, "y-m-d"; it need not be a calendar date.
DateStr(y, m, d) == [y |-> y, m |-> m, d |-> d]

\* Arguments of the tool calls of one client, with the inputs the tools' checks are
\* about: lower-case codes, "2024-02-30" and "2024-13-01", 0 and 10 passengers.
ToolSearchInputs ==
    { [origin |-> "lax", destination |-> "jfk", departure_date |-> DateStr(2024, 12, 15), passengers |-> 1],
      [origin |-> "LAX", destination |-> "xxx", departure_date |-> DateStr(2024, 12, 15), passengers |-> 1],
      [origin |-> "LAX", destination |-> "JFK", departure_date |-> DateStr(2024, 2, 30), passengers |-> 1],
      [origin |-> "LAX", destination |-> "JFK", departure_date |-> DateStr(2024, 12, 15), passengers |-> 0],
      [origin |-> "LAX", destination |-> "JFK", departure_date |-> DateStr(2024, 12, 15), passengers |-> 10] }

\* Arguments of a find_best_price tool call: ranges of 1, 2, 3, 31 and 32 days (the
\* last two across the end of the year), a range that ends before it starts, dates
\* that are no calendar dates, an unknown code, 0 passengers.
BestArgs(o, d, s, e, n) ==
    [origin |-> o, destination |-> d, start_date |-> s, end_date |-> e, passengers |-> n]
BestInputs ==
    { BestArgs("LAX", "JFK", DateStr(2024, 12, 15), DateStr(2024, 12, 15), 1),
      BestArgs("lax", "jfk", DateStr(2024, 12, 31), DateStr(2025, 1, 1), 1),
      BestArgs("LAX", "JFK", DateStr(2024, 2, 28), DateStr(2024, 3, 1), 1),
      BestArgs("LAX", "JFK", DateStr(2024, 12, 15), DateStr(2025, 1, 14), 1),
      BestArgs("LAX", "JFK", DateStr(2024, 12, 15), DateStr(2025, 1, 15), 1),
      BestArgs("LAX", "JFK", DateStr(2024, 12, 16), DateStr(2024, 12, 15), 1),
      BestArgs("LAX", "JFK", DateStr(2024, 13, 1), DateStr(2024, 12, 15), 1),
      BestArgs("LAX", "JFK", DateStr(2024, 12, 15), DateStr(2025, 2, 29), 1),
      BestArgs("XXX", "JFK", DateStr(2024, 12, 15), DateStr(2024, 12, 16), 1),
      BestArgs("LAX", "XXX", DateStr(2024, 12, 16), DateStr(2024, 12, 15), 1),
      BestArgs("LAX", "JFK", DateStr(2024, 12, 15), DateStr(2024, 12, 16), 0) }

\* Searches between any two airports of a directory.
PairInputs(directory) ==
    { [origin |-> o, destination |-> d, departure_date |-> DateStr(2024, 12, 15), passengers |-> 1] :
        o \in directory, d \in directory }

\* Upstream flight offers: the segments of the first itinerary (departure and arrival
\* airport of each) and the price (cents; base is None when the upstream omits it).
\* An offer without segments, or without a price, is malformed.
Seg(d, a) == [departure |-> d, arrival |-> a]
SampleOffers ==
    { [segments |-> <<Seg("LOS", "IST"), Seg("IST", "LHR")>>, price |-> Some([total |-> 90000, base |-> None])],
      [segments |-> <<>>, price |-> Some([total |-> 10000, base |-> None])] }

RECURSIVE SeqsUpTo(_, _)
SeqsUpTo(S, n) ==
    IF n = 0 THEN {<<>>}
    ELSE LET shorter == SeqsUpTo(S, n - 1)
         IN  shorter \cup {Append(s, x) : s \in {t \in shorter : Len(t) = n - 1}, x \in S}

\* The 'data' lists of a 200 flight-offers answer.
Payloads == SeqsUpTo(SampleOffers, MaxOffers)

\* What the token endpoint can answer to one exchange request.
\*   ok:             200 with an access_token and expires_in (None: omitted)
\*   bad_expires_in: 200 with an access_token and an expires_in that is no number
\*   non200:         any other status
\*   exception:      timeout, transport error, a body that is no JSON, no access_token
ExchangeOutcomes ==
    [kind : {"ok"}, expires_in : {Some(t) : t \in TTLs} \cup {None}]
    \cup [kind : {"bad_expires_in", "non200", "exception"}, expires_in : {None}]

\* What the flight-offers endpoint can answer to one request.
OfferOutcomes ==
    [kind : {"ok"}, data : Payloads]
    \cup [kind : {"non200", "exception"}, data : {<<>>}]

\* The 'data' lists the upstream answers to a find_best_price scan with: none, one
\* offer, a dearer offer before a cheaper one.
OfferOf(segments, total, base) ==
    [segments |-> segments, price |-> Some([total |-> total, base |-> base])]
ScanPayloads ==
    LET dear == OfferOf(<<Seg("LAX", "ORD"), Seg("ORD", "JFK")>>, 90000, None)
        cheap == OfferOf(<<Seg("LAX", "JFK")>>, 70000, Some(60000))
    IN  {<<>>, <<dear>>, <<dear, cheap>>}
ScanOfferOutcomes ==
    [kind : {"ok"}, data : ScanPayloads]
    \cup [kind : {"non200", "exception"}, data : {<<>>}]

\* An itinerary of n segments from LAX to JFK.
Chain(n) ==
    LET stopovers == <<"ORD", "ATL", "CDG", "FRA", "IST", "DXB">>
    IN  [k \in 1..n |-> Seg(IF k = 1 THEN "LAX" ELSE stopovers[k - 1],
                            IF k = n THEN "JFK" ELSE stopovers[k])]

\* The offers given to the normalizer: itineraries of 0 to MaxSegments segments, each
\* without a price, with a total only, or with a total and a base.
NormOffers ==
    [segments : {Chain(n) : n \in 0..MaxSegments},
     price : {None, Some([total |-> 90000, base |-> None]),
              Some([total |-> 33333, base |-> None]),
              Some([total |-> 90000, base |-> Some(80000)])}]

\* The 'data' lists given to the normalizer: every list of up to two offers, and two
\* lists one longer than the normalizer's cap, of good offers and of malformed
\* offers before a good one.
NormPayloads ==
    LET good == OfferOf(Chain(1), 90000, None)
        malformed == OfferOf(<<>>, 90000, None)
    IN  SeqsUpTo(NormOffers, 2)
        \cup {[k \in 1..(ParseCap + 1) |-> good],
              [k \in 1..(ParseCap + 1) |-> IF k <= ParseCap THEN malformed ELSE good]}

\* What the token endpoint answers to a find_best_price scan, whose clock stands
\* still: a token that stays valid for the scan (expires_in omitted), one that is
\* expired when it is cached (expires_in under the margin), or no token.
ScanExchangeOutcomes ==
    {o \in ExchangeOutcomes :
        /\ o.kind \in {"ok", "non200", "exception"}
        /\ IsSet(o.expires_in) => o.expires_in[1] < Margin}

\* ------------------------------------------------------------------ state

VARIABLES
    amadeus_client_id,      \* TRUE: AMADEUS_CLIENT_ID is set
    amadeus_client_secret,  \* TRUE: AMADEUS_CLIENT_SECRET is set
    use_real_api,
    fallback_to_mock,
    access_token,           \* None or Some(token)
    token_expires_at,       \* None or Some(instant)
    now,                    \* datetime.now(), seconds
    proc                    \* each coroutine: where it is and what it holds

vars == <<amadeus_client_id, amadeus_client_secret, use_real_api, fallback_to_mock,
          access_token, token_expires_at, now, proc>>

config == <<amadeus_client_id, amadeus_client_secret, use_real_api, fallback_to_mock>>

\* ------------------------------------------------- the coroutine's record

\* A coroutine that is not running. token is the local of the function that called
\* get_amadeus_token. The fields after it are what the current call has done so far:
\* get is how its get_amadeus_token call ended ("none": not called, "pending": the
\* exchange is in flight, "cache", "no_credentials", or the exchange's outcome),
\* offers is how its flight-offers request ended and live_flights the records
\* _parse_amadeus_response made of the answer.
IdleProc ==
    [pc |-> "idle", kind |-> "none", params |-> None, token |-> None,
     get |-> "none", offers |-> "none", live_flights |-> None,
     live_invoked |-> FALSE, exchanges |-> 0, offer_requests |-> 0,
     mock_calls |-> 0, result |-> None, raised |-> FALSE, response |-> "none"]

\* A call of _parse_amadeus_response before its first line, with its argument.
IdleParse(data) ==
    [pc |-> "parse_input", kind |-> "parse", params |-> Some(CHOOSE params \in SearchInputs :
                                                               params.destination = "JFK" /\ params.origin = "LAX"),
     token |-> None, get |-> "none", offers |-> "none", live_flights |-> None,
     live_invoked |-> FALSE, exchanges |-> 0, offer_requests |-> 0,
     mock_calls |-> 0, result |-> None, raised |-> FALSE, response |-> "none",
     data |-> data]

\* The coroutine of a find_best_price call before its first line: the record of a
\* coroutine and the function's locals. args are its arguments; start_dt, end_dt and
\* current_date are days (date.toordinal()); best_price is None for float('inf');
\* searched lists the dates it has called search_flights for, in the order of the
\* calls; the fields of IdleProc are those of the search_flights call at hand.
IdleScan ==
    [pc |-> "idle", kind |-> "none", params |-> None, token |-> None,
     get |-> "none", offers |-> "none", live_flights |-> None,
     live_invoked |-> FALSE, exchanges |-> 0, offer_requests |-> 0,
     mock_calls |-> 0, result |-> None, raised |-> FALSE, response |-> "none",
     args |-> None, start_dt |-> 0, end_dt |-> 0, current_date |-> 0,
     best_price |-> None, best_date |-> None, best_flight |-> None,
     search_results |-> <<>>, searched |-> <<>>]

\* ------------------------------------------------------- pure functions

Min(a, b) == IF a < b THEN a ELSE b

\* "base_fare": float(price_data.get('base', total_price * 0.85)), in cents.
BaseFare(price_data) ==
    IF IsSet(price_data.base) THEN price_data.base[1] ELSE (price_data.total * 85) \div 100

\* (variant) the taxes are the estimate's, whether or not the upstream gave a base.
Taxes_ofEstimate(price_data) == price_data.total - (price_data.total * 85) \div 100

\* "taxes": float(price_data.get('total', total_price))
\*          - float(price_data.get('base', total_price * 0.85))
Taxes(price_data) == price_data.total - BaseFare(price_data)

\* (variant) the stops are counted as the segments.
ParseOffer_stopsAreSegments(i, offer, params) ==
    IF Len(offer.segments) = 0 \/ ~IsSet(offer.price) THEN None
    ELSE LET segments == offer.segments
             n == Len(segments)
             price_data == offer.price[1]
         IN  Some([id |-> <<"AMADEUS", i>>,
                   departure |-> [airport |-> segments[1].departure, date |-> params.departure_date],
                   arrival |-> [airport |-> segments[n].arrival, date |-> params.departure_date],
                   stops |-> n,
                   stop_airports |-> [k \in 1..(n - 1) |-> segments[k].arrival],
                   price |-> [total |-> price_data.total, base_fare |-> BaseFare(price_data),
                              taxes |-> Taxes(price_data)]])

\* One offer of _parse_amadeus_response's loop: None when the body raises (no
\* segments[0], no 'price'), which the loop logs and skips.
ParseOffer(i, offer, params) ==
    IF Len(offer.segments) = 0 \/ ~IsSet(offer.price) THEN None
    ELSE LET segments == offer.segments
             n == Len(segments)
             price_data == offer.price[1]
         IN  Some([id |-> <<"AMADEUS", i>>,
                   departure |-> [airport |-> segments[1].departure, date |-> params.departure_date],
                   arrival |-> [airport |-> segments[n].arrival, date |-> params.departure_date],
                   stops |-> n - 1,
                   stop_airports |-> [k \in 1..(n - 1) |-> segments[k].arrival],
                   price |-> [total |-> price_data.total, base_fare |-> BaseFare(price_data),
                              taxes |-> Taxes(price_data)]])

RECURSIVE ParseOffers(_, _, _)
ParseOffers(data, i, params) ==
    IF i > Min(Len(data), ParseCap) THEN <<>>
    ELSE ParseOffer(i, data[i], params) \o ParseOffers(data, i + 1, params)

parse_amadeus_response(data, params) ==
    LET flights == ParseOffers(data, 1, params)
    IN  [search_params |-> params, flights |-> flights, total_results |-> Len(flights),
         data_source |-> "amadeus_api", error |-> None]

\* (variant) the record flies the route backwards.
search_flights_mock_backwards(params) ==
    LET mock_flights ==
            << [id |-> <<"MOCK", 1>>,
                departure |-> [airport |-> params.destination, date |-> params.departure_date],
                arrival |-> [airport |-> params.origin, date |-> params.departure_date],
                duration |-> 1175,
                stops |-> 1,
                stop_airports |-> <<"IST">>,
                price |-> [total |-> 128500, base_fare |-> 105000, taxes |-> 23500]] >>
    IN  [search_params |-> params, flights |-> mock_flights, total_results |-> Len(mock_flights),
         data_source |-> "mock_data", error |-> None]

\* search_flights_mock of flight_search_server_clean.py (duration in minutes).
search_flights_mock(params) ==
    LET mock_flights ==
            << [id |-> <<"MOCK", 1>>,
                departure |-> [airport |-> params.origin, date |-> params.departure_date],
                arrival |-> [airport |-> params.destination, date |-> params.departure_date],
                duration |-> 1175,
                stops |-> 1,
                stop_airports |-> <<"IST">>,
                price |-> [total |-> 128500, base_fare |-> 105000, taxes |-> 23500]] >>
    IN  [search_params |-> params, flights |-> mock_flights, total_results |-> Len(mock_flights),
         data_source |-> "mock_data", error |-> None]

\* (variant) the empty result carries no error.
NoDataResult_noError(params) ==
    [search_params |-> params, flights |-> <<>>, total_results |-> 0,
     data_source |-> "no_data", error |-> None]

\* The dict search_flights builds when it has nothing to return.
NoDataResult(params) ==
    [search_params |-> params, flights |-> <<>>, total_results |-> 0,
     data_source |-> "no_data", error |-> Some("No flight data available")]

\* _is_international_route of flight_search_server.py.
is_international_route(origin, destination) == Country[origin] /= Country[destination]

\* _is_long_haul_route of flight_search_server.py.
is_long_haul_route(origin, destination) ==
    LET origin_continent == continent_mapping(Country[origin])
        dest_continent == continent_mapping(Country[destination])
    IN  /\ origin_continent /= dest_continent
        /\ origin_continent /= "Unknown"
        /\ dest_continent /= "Unknown"

\* One record of flight_search_server.py's search_flights_mock (duration in minutes,
\* prices in cents).
MockFlight(params, k, duration, stop_airports, total, base_fare, taxes) ==
    [id |-> <<"FLIGHT", k>>,
     departure |-> [airport |-> params.origin, date |-> params.departure_date],
     arrival |-> [airport |-> params.destination, date |-> params.departure_date],
     duration |-> duration,
     stops |-> Len(stop_airports),
     stop_airports |-> stop_airports,
     price |-> [total |-> total, base_fare |-> base_fare, taxes |-> taxes]]

\* search_flights_mock of flight_search_server.py.
search_flights_mock_full(params) ==
    LET is_international == is_international_route(params.origin, params.destination)
        is_long_haul == is_long_haul_route(params.origin, params.destination)
        mock_flights ==
            IF is_long_haul
            THEN << MockFlight(params, 1, 1095, <<"ATL", "CDG">>, 145000, 120000, 25000),
                    MockFlight(params, 2, 1035, <<"ORD", "FRA">>, 162000, 135000, 27000),
                    MockFlight(params, 3, 1175, <<"IST">>, 128500, 105000, 23500) >>
            ELSE IF is_international
            THEN << MockFlight(params, 1, 675, <<>>, 85000, 72000, 13000) >>
            ELSE << MockFlight(params, 1, 555, <<"ATL">>, 48500, 42000, 6500),
                    MockFlight(params, 2, 530, <<>>, 52000, 45500, 6500) >>
    IN  [search_params |-> params, flights |-> mock_flights, total_results |-> Len(mock_flights),
         route_type |-> IF is_long_haul THEN "long_haul"
                        ELSE IF is_international THEN "international" ELSE "domestic"]

\* ------------------------------------------------------------------ dates
\* datetime.strptime(s, "%Y-%m-%d"), datetime.strftime and timedelta as the standard
\* library computes them: a date is its ordinal, the days since 0001-01-01.

IsLeap(y) == (y % 4 = 0 /\ y % 100 /= 0) \/ y % 400 = 0

DaysInMonth(y, m) ==
    IF m = 2 THEN (IF IsLeap(y) THEN 29 ELSE 28)
    ELSE IF m \in {4, 6, 9, 11} THEN 30 ELSE 31

DaysBeforeYear(y) ==
    LET k == y - 1 IN k * 365 + (k \div 4) - (k \div 100) + (k \div 400)

\* The days of year y before its month m: the sum of the days of the months before.
DaysBeforeMonth(y, m) ==
    <<0, 31, 59, 90, 120, 151, 181, 212, 243, 273, 304, 334>>[m]
    + (IF m > 2 /\ IsLeap(y) THEN 1 ELSE 0)

toordinal(date) == DaysBeforeYear(date.y) + DaysBeforeMonth(date.y, date.m) + date.d

\* strptime: the date's ordinal, or None where it raises ValueError.
strptime(date_string) ==
    IF /\ date_string.y \in 1..9999
       /\ date_string.m \in 1..12
       /\ date_string.d \in 1..DaysInMonth(date_string.y, date_string.m)
    THEN Some(toordinal(date_string))
    ELSE None

\* strftime("%Y-%m-%d") of the date with ordinal n (of the years the inputs reach).
strftime(n) ==
    LET y == CHOOSE yy \in 2023..2026 : DaysBeforeYear(yy) < n /\ n <= DaysBeforeYear(yy + 1)
        rest == n - DaysBeforeYear(y)
        m == CHOOSE mm \in 1..12 :
                 DaysBeforeMonth(y, mm) < rest /\ rest <= DaysBeforeMonth(y, mm) + DaysInMonth(y, mm)
    IN  DateStr(y, m, rest - DaysBeforeMonth(y, m))

\* (variant) a range of 30 days is already too long.
RangeTooLong_from30(start_dt, end_dt) == end_dt - start_dt >= MaxRangeDays

\* find_best_price: "if (end_dt - start_dt).days > 30".
RangeTooLong(start_dt, end_dt) == end_dt - start_dt > MaxRangeDays

\* (variant) the first record of the date is taken for its cheapest.
Cheapest_first(flights) == flights[1]

\* find_best_price: min(result['flights'], key=lambda x: x['price']['total']), the
\* first of the records with the least total.
Cheapest(flights) ==
    LET least == CHOOSE t \in {flights[i].price.total : i \in 1..Len(flights)} :
                     \A i \in 1..Len(flights) : t <= flights[i].price.total
        first == CHOOSE i \in 1..Len(flights) :
                     /\ flights[i].price.total = least
                     /\ \A j \in 1..(i - 1) : flights[j].price.total /= least
    IN  flights[first]

\* --------------------------------------------------- the code's decisions

\* (variant) the comparison with the expiry turned round.
CacheValid_reversed ==
    IsSet(access_token) /\ IsSet(token_expires_at) /\ now > token_expires_at[1]

\* get_amadeus_token: the cached token is served.
CacheValid ==
    IsSet(access_token) /\ IsSet(token_expires_at) /\ now < token_expires_at[1]

\* (variant) only the client id is looked at.
CredentialsPresent_idOnly == amadeus_client_id

\* get_amadeus_token: not (not client_id or not client_secret).
CredentialsPresent == amadeus_client_id /\ amadeus_client_secret

\* search_flights: "if self.use_real_api and self.amadeus_client_id".
LiveEnabled == use_real_api /\ amadeus_client_id

\* (variant) the live result is looked up under a key it does not have.
LiveHasFlights_wrongKey(res) == FALSE

\* search_flights: "if result and result.get('flights')"; res is None or Some(result).
LiveHasFlights(res) == IsSet(res) /\ Len(res[1].flights) > 0

\* (variant) the expiry is cached without the margin.
NewExpiry_noMargin(expires_in) ==
    now + (IF IsSet(expires_in) THEN expires_in[1] ELSE DefaultExpiresIn)

\* get_amadeus_token: the expiry it caches for a 200 answer received now.
NewExpiry(expires_in) ==
    now + (IF IsSet(expires_in) THEN expires_in[1] ELSE DefaultExpiresIn) - Margin

\* The token a 200 answer received now carries: the upstream counts its validity,
\* expires_in seconds (3600 when it does not say), from the answer.
NewToken(expires_in) ==
    [issued_at |-> now,
     valid_until |-> now + (IF IsSet(expires_in) THEN expires_in[1] ELSE DefaultExpiresIn)]

\* -------------------------------------------- the steps of one coroutine
\* Each operator takes the coroutine's record and gives the record it has when it next
\* suspends at an await (or is done).

\* The tool function search_flights, once the service has returned result.
ToolReturn(r, result) ==
    [r EXCEPT !.pc = "done",
              !.result = Some(result),
              !.response = IF IsSet(result.error) THEN "error"
                           ELSE IF Len(result.flights) = 0 THEN "no_flights"
                           ELSE IF result.data_source = "amadeus_api" THEN "results_live"
                           ELSE "results_demo"]

\* call_tool's handler for an exception that leaves the tool function.
ToolRaised(r) ==
    [r EXCEPT !.pc = "done", !.raised = TRUE, !.response = "error_executing"]

\* (variant) a date as cheap as the best so far replaces it ("<=" for "<").
BestPriceGot_lastWins(r, result) ==
    LET found == Len(result.flights) > 0
        cheapest_flight == Cheapest(result.flights)
        total == cheapest_flight.price.total
        date_str == strftime(r.current_date)
        better == found /\ (~IsSet(r.best_price) \/ total <= r.best_price[1])
    IN  [r EXCEPT !.pc = "scan_sleep",
                  !.result = Some(result),
                  !.search_results =
                      IF found
                      THEN Append(@, [date |-> date_str, price |-> total,
                                      flight |-> cheapest_flight,
                                      data_source |-> result.data_source])
                      ELSE @,
                  !.best_price = IF better THEN Some(total) ELSE @,
                  !.best_date = IF better THEN Some(date_str) ELSE @,
                  !.best_flight = IF better THEN Some(cheapest_flight) ELSE @,
                  !.current_date = @ + 1]

\* find_best_price once search_flights has returned result for current_date: the
\* date's cheapest record is noted, the best so far replaced when it is cheaper, and
\* the loop sleeps before the next date.
BestPriceGot(r, result) ==
    LET found == Len(result.flights) > 0
        cheapest_flight == Cheapest(result.flights)
        total == cheapest_flight.price.total
        date_str == strftime(r.current_date)
        better == found /\ (~IsSet(r.best_price) \/ total < r.best_price[1])
    IN  [r EXCEPT !.pc = "scan_sleep",
                  !.result = Some(result),
                  !.search_results =
                      IF found
                      THEN Append(@, [date |-> date_str, price |-> total,
                                      flight |-> cheapest_flight,
                                      data_source |-> result.data_source])
                      ELSE @,
                  !.best_price = IF better THEN Some(total) ELSE @,
                  !.best_date = IF better THEN Some(date_str) ELSE @,
                  !.best_flight = IF better THEN Some(cheapest_flight) ELSE @,
                  !.current_date = @ + 1]

\* FlightSearchService.search_flights returns result to the tool function that
\* called it.
ServiceReturned(r, result) ==
    IF r.kind = "best" THEN BestPriceGot(r, result) ELSE ToolReturn(r, result)

\* (variant) the fallback flag is read negated.
Fallback_negated(r) ==
    IF ~fallback_to_mock
    THEN [r EXCEPT !.pc = "mock_sleep", !.mock_calls = @ + 1]
    ELSE ToolReturn(r, NoDataResult(r.params[1]))

\* search_flights after the live branch: the mock (suspends in its sleep) or no data.
Fallback(r) ==
    IF fallback_to_mock
    THEN [r EXCEPT !.pc = "mock_sleep", !.mock_calls = @ + 1]
    ELSE ServiceReturned(r, NoDataResult(r.params[1]))

\* search_flights once search_flights_amadeus has returned res (None or Some(result)).
AmadeusReturned(r, res) ==
    LET r1 == [r EXCEPT !.token = None]
    IN  IF LiveHasFlights(res) THEN ServiceReturned(r1, res[1]) ELSE Fallback(r1)

\* (variant) the GET goes through a transport that sends every request twice.
SendOffersRequest_twice(r, token) ==
    [r EXCEPT !.pc = "offers_wait", !.token = token, !.offer_requests = @ + 2]

\* search_flights_amadeus with the token in hand: the GET is sent.
SendOffersRequest(r, token) ==
    [r EXCEPT !.pc = "offers_wait", !.token = token, !.offer_requests = @ + 1]

\* (variant) search_flights_amadeus sends the GET whatever get_amadeus_token returned.
TokenReturned_unchecked(r, outcome, ret) ==
    LET r1 == [r EXCEPT !.get = outcome, !.token = ret]
    IN  IF r.kind = "test" THEN [r1 EXCEPT !.pc = "done"]
        ELSE SendOffersRequest(r1, ret)

\* The caller of get_amadeus_token once it has returned ret, having ended as outcome.
TokenReturned(r, outcome, ret) ==
    LET r1 == [r EXCEPT !.get = outcome, !.token = ret]
    IN  IF r.kind = "test" THEN [r1 EXCEPT !.pc = "done"]
        ELSE IF IsSet(ret) THEN SendOffersRequest(r1, ret)
        ELSE AmadeusReturned(r1, None)

\* (variant) a rejected exchange is sent once more.
ExchangeAnswered_retry(r, o, token) ==
    IF o.kind = "ok" THEN TokenReturned(r, "ok", Some(token))
    ELSE IF o.kind = "non200" /\ r.exchanges < 2
         THEN [r EXCEPT !.get = "non200", !.exchanges = @ + 1]
         ELSE TokenReturned(r, o.kind, None)

\* get_amadeus_token once the POST is answered: the new token for a 200 answer it
\* could read, None for everything else.
ExchangeAnswered(r, o, token) ==
    IF o.kind = "ok" THEN TokenReturned(r, "ok", Some(token))
    ELSE TokenReturned(r, o.kind, None)

\* (variant) the GET is outside the try, so its exception leaves search_flights.
OffersAnswered_uncaught(r, o) ==
    LET r1 == [r EXCEPT !.offers = o.kind]
    IN  IF o.kind = "ok"
        THEN LET result == parse_amadeus_response(o.data, r.params[1])
             IN  AmadeusReturned([r1 EXCEPT !.live_flights = Some(result.flights)], Some(result))
        ELSE IF o.kind = "exception" THEN ToolRaised(r1)
        ELSE AmadeusReturned(r1, None)

\* search_flights_amadeus once the GET is answered: the parsed result for a 200 answer,
\* None for everything else.
OffersAnswered(r, o) ==
    LET r1 == [r EXCEPT !.offers = o.kind]
    IN  IF o.kind = "ok"
        THEN LET result == parse_amadeus_response(o.data, r.params[1])
             IN  AmadeusReturned([r1 EXCEPT !.live_flights = Some(result.flights)], Some(result))
        ELSE AmadeusReturned(r1, None)

\* get_amadeus_token up to its first await: the cached token, no credentials, or
\* the POST is sent.
EnterGetToken(r) ==
    IF CacheValid THEN TokenReturned(r, "cache", access_token)
    ELSE IF ~CredentialsPresent THEN TokenReturned(r, "no_credentials", None)
    ELSE [r EXCEPT !.pc = "token_wait", !.exchanges = @ + 1, !.get = "pending"]

\* FlightSearchService.search_flights from its first line.
ServiceSearch(r) ==
    IF LiveEnabled THEN EnterGetToken([r EXCEPT !.live_invoked = TRUE])
    ELSE Fallback(r)

\* (variant) the codes are not looked up.
ToolSearch_unchecked(params) ==
    LET upper == [params EXCEPT !.origin = Upper(@), !.destination = Upper(@)]
    IN  ServiceSearch([IdleProc EXCEPT !.kind = "search", !.params = Some(upper)])

\* The tool function search_flights from its first line: the codes are upper-cased
\* and looked up, and nothing else of the arguments is checked.
ToolSearch(params) ==
    LET upper == [params EXCEPT !.origin = Upper(@), !.destination = Upper(@)]
        r == [IdleProc EXCEPT !.kind = "search", !.params = Some(upper)]
    IN  IF upper.origin \notin AIRPORT_DATABASE \/ upper.destination \notin AIRPORT_DATABASE
        THEN [r EXCEPT !.pc = "done", !.response = "airport_not_found"]
        ELSE ServiceSearch(r)

\* (variant) the answer is formatted whether or not a flight was found.
BestPriceReturn_unguarded(r) ==
    IF ~IsSet(r.best_flight) THEN ToolRaised(r)
    ELSE [r EXCEPT !.pc = "done", !.response = "best_price"]

\* find_best_price after its loop: "if not best_flight", or the best flight.
BestPriceReturn(r) ==
    [r EXCEPT !.pc = "done",
              !.response = IF ~IsSet(r.best_flight) THEN "no_flights_in_range"
                           ELSE "best_price"]

\* (variant) the dates of the range are searched from the last to the first.
LoopHead_fromEnd(r) ==
    IF r.current_date <= r.end_dt
    THEN LET date_str == strftime(r.end_dt - (r.current_date - r.start_dt))
             params == [origin |-> r.args[1].origin, destination |-> r.args[1].destination,
                        departure_date |-> date_str, passengers |-> r.args[1].passengers]
         IN  ServiceSearch([r EXCEPT !.searched = Append(@, date_str),
                                     !.params = Some(params), !.token = None,
                                     !.get = "none", !.offers = "none",
                                     !.live_flights = None, !.live_invoked = FALSE,
                                     !.exchanges = 0, !.offer_requests = 0,
                                     !.mock_calls = 0, !.result = None])
    ELSE BestPriceReturn(r)

\* find_best_price at the head of its loop: search_flights is called for
\* current_date (and runs to its first await), or the loop is over.
LoopHead(r) ==
    IF r.current_date <= r.end_dt
    THEN LET date_str == strftime(r.current_date)
             params == [origin |-> r.args[1].origin, destination |-> r.args[1].destination,
                        departure_date |-> date_str, passengers |-> r.args[1].passengers]
         IN  ServiceSearch([r EXCEPT !.searched = Append(@, date_str),
                                     !.params = Some(params), !.token = None,
                                     !.get = "none", !.offers = "none",
                                     !.live_flights = None, !.live_invoked = FALSE,
                                     !.exchanges = 0, !.offer_requests = 0,
                                     !.mock_calls = 0, !.result = None])
    ELSE BestPriceReturn(r)

\* The tool function find_best_price from its first line: the codes, then the two
\* dates and the range, then the loop.
ToolBestPrice(args) ==
    LET upper == [args EXCEPT !.origin = Upper(@), !.destination = Upper(@)]
        r == [IdleScan EXCEPT !.kind = "best", !.args = Some(upper)]
        start_dt == strptime(args.start_date)
        end_dt == strptime(args.end_date)
        rejected(response) == [r EXCEPT !.pc = "done", !.response = response]
    IN  IF upper.origin \notin AIRPORT_DATABASE \/ upper.destination \notin AIRPORT_DATABASE
        THEN rejected("airport_not_found")
        ELSE IF ~IsSet(start_dt) \/ ~IsSet(end_dt) THEN rejected("invalid_date_format")
        ELSE IF start_dt[1] > end_dt[1] THEN rejected("start_after_end")
        ELSE IF RangeTooLong(start_dt[1], end_dt[1]) THEN rejected("range_too_long")
        ELSE LoopHead([r EXCEPT !.start_dt = start_dt[1], !.end_dt = end_dt[1],
                                !.current_date = start_dt[1]])

\* A task cancelled while it waits: CancelledError is raised at the await, no
\* "except Exception" catches it, and the request it waited for is given up.
Cancelled(r) ==
    [r EXCEPT !.pc = "cancelled",
              !.get = IF r.pc = "token_wait" THEN "cancelled" ELSE @,
              !.offers = IF r.pc = "offers_wait" THEN "cancelled" ELSE @]

\* The tool function search_flights of flight_search_server.py from its first line.
ToolSearch_full(params) ==
    LET upper == [params EXCEPT !.origin = Upper(@), !.destination = Upper(@)]
        r == [IdleProc EXCEPT !.kind = "search_full", !.params = Some(upper)]
    IN  IF upper.origin \notin AIRPORT_DATABASE_full \/ upper.destination \notin AIRPORT_DATABASE_full
        THEN [r EXCEPT !.pc = "done", !.response = "airport_not_found"]
        ELSE [r EXCEPT !.pc = "mock_sleep_full", !.mock_calls = @ + 1]

\* ---------------------------------------------------------------- actions

Init ==
    /\ amadeus_client_id \in BOOLEAN
    /\ amadeus_client_secret \in BOOLEAN
    /\ use_real_api \in BOOLEAN
    /\ fallback_to_mock \in BOOLEAN
    /\ access_token = None
    /\ token_expires_at = None
    /\ now = 0
    /\ proc = [p \in Procs |-> IdleProc]

\* __init__ schedules test_api_connection, which calls get_amadeus_token.
StartConnectionTest ==
    /\ use_real_api /\ amadeus_client_id
    /\ proc[StartupTask].pc = "idle"
    /\ proc' = [proc EXCEPT ![StartupTask] = EnterGetToken([IdleProc EXCEPT !.kind = "test"])]
    /\ UNCHANGED <<config, access_token, token_expires_at, now>>

\* A tool call search_flights arrives.
StartSearch(p, params) ==
    /\ proc[p].pc = "idle"
    /\ proc' = [proc EXCEPT ![p] = ToolSearch(params)]
    /\ UNCHANGED <<config, access_token, token_expires_at, now>>

\* (variant) a timeout of the exchange drops the cached token.
ExchangeResponse_dropsOnTimeout(p, o) ==
    /\ proc[p].pc = "token_wait"
    /\ LET token == NewToken(o.expires_in)
       IN  /\ access_token' = IF o.kind \in {"ok", "bad_expires_in"} THEN Some(token)
                              ELSE IF o.kind = "exception" THEN None
                              ELSE access_token
           /\ token_expires_at' = IF o.kind = "ok" THEN Some(NewExpiry(o.expires_in))
                                  ELSE IF o.kind = "exception" THEN None
                                  ELSE token_expires_at
           /\ proc' = [proc EXCEPT ![p] = ExchangeAnswered(@, o, token)]
    /\ UNCHANGED <<config, now>>

\* The token endpoint's answer (or the timeout) reaches get_amadeus_token.
ExchangeResponse(p, o) ==
    /\ proc[p].pc = "token_wait"
    /\ LET token == NewToken(o.expires_in)
       IN  /\ access_token' = IF o.kind \in {"ok", "bad_expires_in"} THEN Some(token)
                              ELSE access_token
           /\ token_expires_at' = IF o.kind = "ok" THEN Some(NewExpiry(o.expires_in))
                                  ELSE token_expires_at
           /\ proc' = [proc EXCEPT ![p] = ExchangeAnswered(@, o, token)]
    /\ UNCHANGED <<config, now>>

\* The flight-offers endpoint's answer (or the timeout) reaches search_flights_amadeus.
OffersResponse(p, o) ==
    /\ proc[p].pc = "offers_wait"
    /\ proc' = [proc EXCEPT ![p] = OffersAnswered(@, o)]
    /\ UNCHANGED <<config, access_token, token_expires_at, now>>

\* search_flights_mock's sleep ends and the mock result goes back to the tool.
MockDone(p) ==
    /\ proc[p].pc = "mock_sleep"
    /\ proc' = [proc EXCEPT ![p] = ServiceReturned(@, search_flights_mock(@.params[1]))]
    /\ UNCHANGED <<config, access_token, token_expires_at, now>>

\* The tool call's answer has gone to the client; the caller may call again.
Return(p) ==
    /\ proc[p].pc = "done"
    /\ proc' = [proc EXCEPT ![p] = IF p = StartupTask THEN [IdleProc EXCEPT !.pc = "ended"]
                                   ELSE IdleProc]
    /\ UNCHANGED <<config, access_token, token_expires_at, now>>

Tick ==
    /\ \E d \in Steps : now + d <= MaxTime /\ now' = now + d
    /\ UNCHANGED <<config, access_token, token_expires_at, proc>>

Next ==
    \/ StartConnectionTest
    \/ \E p \in Callers, params \in SearchInputs : StartSearch(p, params)
    \/ \E p \in Procs, o \in ExchangeOutcomes : ExchangeResponse(p, o)
    \/ \E p \in Callers, o \in OfferOutcomes : OffersResponse(p, o)
    \/ \E p \in Callers : MockDone(p)
    \/ \E p \in Procs : Return(p)
    \/ Tick

Spec == Init /\ [][Next]_vars

\* Every await of the code ends: the POST has timeout=10.0, the GET timeout=15.0, the
\* mock sleeps 0.1 s, and the event loop runs every coroutine that can run.
Fairness ==
    /\ WF_vars(StartConnectionTest)
    /\ \A p \in Procs : WF_vars(\E o \in ExchangeOutcomes : ExchangeResponse(p, o))
    /\ \A p \in Callers : WF_vars(\E o \in OfferOutcomes : OffersResponse(p, o))
    /\ \A p \in Callers : WF_vars(MockDone(p))

FairSpec == Spec /\ Fairness

\* ------------------------------------------------- the tools of one client
\* One client that calls search_flights or find_best_price once, with any arguments,
\* and may cancel the call; the startup task has ended.

Client == CHOOSE p \in Callers : TRUE

\* A tool call find_best_price arrives.
StartBestPrice(p, args) ==
    /\ proc[p].pc = "idle"
    /\ proc' = [proc EXCEPT ![p] = ToolBestPrice(args)]
    /\ UNCHANGED <<config, access_token, token_expires_at, now>>

\* The flight-offers endpoint answers a request of a find_best_price scan.
ScanOffersResponse(p, o) ==
    /\ proc[p].kind = "best"
    /\ proc[p].pc = "offers_wait"
    /\ (o.kind = "ok" /\ Len(parse_amadeus_response(o.data, proc[p].params[1]).flights) > 0)
       => Cardinality({i \in 1..Len(proc[p].search_results) :
              proc[p].search_results[i].data_source = "amadeus_api"}) < MaxLiveAnswers
    /\ OffersResponse(p, o)

\* find_best_price's "await asyncio.sleep(0.1)" ends: the next date, or the answer.
ScanWake(p) ==
    /\ proc[p].pc = "scan_sleep"
    /\ proc' = [proc EXCEPT ![p] = LoopHead(@)]
    /\ UNCHANGED <<config, access_token, token_expires_at, now>>

\* The client cancels its find_best_price call while the call waits.
Cancel(p) ==
    /\ proc[p].kind = "best"
    /\ proc[p].pc \in {"token_wait", "offers_wait", "mock_sleep", "scan_sleep"}
    /\ proc' = [proc EXCEPT ![p] = Cancelled(@)]
    /\ UNCHANGED <<config, access_token, token_expires_at, now>>

ToolNext ==
    \/ \E params \in ToolSearchInputs : StartSearch(Client, params)
    \/ \E args \in BestInputs : StartBestPrice(Client, args)
    \/ \E o \in ExchangeOutcomes : proc[Client].kind = "search" /\ ExchangeResponse(Client, o)
    \/ \E o \in OfferOutcomes : proc[Client].kind = "search" /\ OffersResponse(Client, o)
    \/ \E o \in ScanExchangeOutcomes : proc[Client].kind = "best" /\ ExchangeResponse(Client, o)
    \/ \E o \in ScanOfferOutcomes : ScanOffersResponse(Client, o)
    \/ MockDone(Client)
    \/ ScanWake(Client)
    \/ Cancel(Client)

ToolSpec == Init /\ [][ToolNext]_vars

\* ------------------------------------------------------ the mock generators
\* The servers without live lookup: flight_search_server_clean.py with USE_REAL_API
\* off, and flight_search_server.py, searched between any two of their airports.

DemoInit == Init /\ ~use_real_api

\* A tool call search_flights arrives at flight_search_server.py.
StartSearch_full(p, params) ==
    /\ proc[p].pc = "idle"
    /\ proc' = [proc EXCEPT ![p] = ToolSearch_full(params)]
    /\ UNCHANGED <<config, access_token, token_expires_at, now>>

\* flight_search_server.py's search_flights_mock returns after its sleep, and the tool
\* function formats the records ("This is demo data").
MockDone_full(p) ==
    /\ proc[p].pc = "mock_sleep_full"
    /\ proc' = [proc EXCEPT ![p] =
                   [@ EXCEPT !.pc = "done",
                             !.result = Some(search_flights_mock_full(proc[p].params[1])),
                             !.response = "results_demo"]]
    /\ UNCHANGED <<config, access_token, token_expires_at, now>>

DemoNext ==
    \/ \E params \in PairInputs(AIRPORT_DATABASE) : StartSearch(Client, params)
    \/ MockDone(Client)
    \/ \E params \in PairInputs(AIRPORT_DATABASE_full) : StartSearch_full(Client, params)
    \/ MockDone_full(Client)

DemoSpec == DemoInit /\ [][DemoNext]_vars

\* ------------------------------------------------------ the flight records
\* Every way a flight record is made: _parse_amadeus_response applied to a 'data'
\* list, and the mock generators of both server files.

RecordInit ==
    /\ amadeus_client_id \in BOOLEAN
    /\ amadeus_client_secret \in BOOLEAN
    /\ use_real_api = FALSE
    /\ fallback_to_mock = TRUE
    /\ access_token = None
    /\ token_expires_at = None
    /\ now = 0
    /\ \E start \in {IdleProc} \cup {IdleParse(data) : data \in NormPayloads} :
           proc = [p \in Procs |-> IF p = Client THEN start ELSE IdleProc]

\* _parse_amadeus_response runs on its argument.
Normalize(p) ==
    /\ proc[p].pc = "parse_input"
    /\ LET result == parse_amadeus_response(proc[p].data, proc[p].params[1])
       IN  proc' = [proc EXCEPT ![p] = [@ EXCEPT !.pc = "done",
                                                 !.live_flights = Some(result.flights),
                                                 !.result = Some(result)]]
    /\ UNCHANGED <<config, access_token, token_expires_at, now>>

RecordNext ==
    \/ Normalize(Client)
    \/ DemoNext

RecordSpec == RecordInit /\ [][RecordNext]_vars

\* ------------------------------------------------------------ the claims

\* Caller p's tool call has ended and it did call FlightSearchService.search_flights.
SearchDone(p) ==
    /\ proc[p].pc = "done"
    /\ proc[p].kind = "search"
    /\ proc[p].response /= "airport_not_found"

\* The live attempt of p's call gave at least one record.
LiveYieldedRecords(p) ==
    IsSet(proc[p].live_flights) /\ Len(proc[p].live_flights[1]) >= 1

\* The cache as the specification words the test of GetToken's first rule.
CachedTokenFresh ==
    IsSet(access_token) /\ IsSet(token_expires_at) /\ now < token_expires_at[1]

\* p calls get_amadeus_token in this step.
CallsGetToken(p) == proc[p].get = "none" /\ proc'[p].get /= "none"

\* C1: a search whose live attempt was made and failed for any reason, or gave zero
\* records, returns with fallback enabled the mock generator's records for its
\* parameters, tagged mock_data, and no exception reaches the caller.
C1_FailedLiveFallsBackToMock ==
    \A p \in Callers :
        (SearchDone(p) /\ proc[p].live_invoked /\ ~LiveYieldedRecords(p) /\ fallback_to_mock)
        => /\ ~proc[p].raised
           /\ proc[p].result = Some(search_flights_mock(proc[p].params[1]))
           /\ proc[p].result[1].data_source = "mock_data"
           /\ proc[p].response = "results_demo"

C1_Witness ==
    \E p \in Callers :
        /\ SearchDone(p) /\ fallback_to_mock
        /\ proc[p].get = "non200"
        /\ proc[p].result = Some(search_flights_mock(proc[p].params[1]))

\* C2 (as claimed): with live lookup disabled, or the client id or the client secret
\* absent, a search does not invoke search_flights_amadeus and sends no request.
C2_SkipsLiveWithoutCredentials ==
    \A p \in Callers :
        (proc[p].kind = "search" /\ (~use_real_api \/ ~amadeus_client_id \/ ~amadeus_client_secret))
        => /\ ~proc[p].live_invoked
           /\ proc[p].exchanges = 0
           /\ proc[p].offer_requests = 0

\* C3: a search whose live attempt gave at least one record returns exactly those
\* records, tagged amadeus_api, and never calls the mock generator.
C3_LiveRecordsReturned ==
    \A p \in Callers :
        (SearchDone(p) /\ LiveEnabled /\ LiveYieldedRecords(p))
        => /\ ~proc[p].raised
           /\ IsSet(proc[p].result)
           /\ proc[p].result[1].flights = proc[p].live_flights[1]
           /\ proc[p].result[1].data_source = "amadeus_api"
           /\ proc[p].mock_calls = 0
           /\ proc[p].response = "results_live"

C3_Witness ==
    \E p \in Callers :
        /\ SearchDone(p) /\ LiveYieldedRecords(p)
        /\ proc[p].result[1].data_source = "amadeus_api"
        /\ Len(proc[p].result[1].flights) >= 1

\* C4: with fallback disabled, a search whose live attempt gave nothing (skipped,
\* failed or empty) returns no records, tagged no_data, with a non-empty error, and
\* the tool answers with the error text, not with the text of a search that found no
\* flights.
C4_EmptyResultCarriesError ==
    \A p \in Callers :
        (SearchDone(p) /\ ~fallback_to_mock /\ ~LiveYieldedRecords(p))
        => /\ ~proc[p].raised
           /\ IsSet(proc[p].result)
           /\ proc[p].result[1].flights = <<>>
           /\ proc[p].result[1].total_results = 0
           /\ proc[p].result[1].data_source = "no_data"
           /\ IsSet(proc[p].result[1].error)
           /\ proc[p].result[1].error[1] /= ""
           /\ proc[p].response = "error"
           /\ proc[p].response /= "no_flights"

C4_Witness ==
    \E p \in Callers :
        /\ SearchDone(p) /\ ~fallback_to_mock
        /\ proc[p].live_invoked /\ proc[p].offers = "ok" /\ ~LiveYieldedRecords(p)
        /\ proc[p].response = "error"

\* The three ends of a search.
DoneLive(p) ==
    /\ proc[p].result[1].data_source = "amadeus_api"
    /\ Len(proc[p].result[1].flights) >= 1
    /\ proc[p].mock_calls = 0
DoneMock(p) ==
    /\ proc[p].result[1].data_source = "mock_data"
    /\ fallback_to_mock
    /\ proc[p].mock_calls = 1
DoneEmpty(p) ==
    /\ proc[p].result[1].data_source = "no_data"
    /\ ~fallback_to_mock
    /\ proc[p].result[1].flights = <<>>

\* C5: every search that has started ends, and it ends in exactly one of live, mock
\* and empty, with no exception leaving it, whatever the configuration and whatever
\* the upstream answers.
C5_SearchEndsInOneOutcome ==
    /\ [](\A p \in Callers :
            SearchDone(p)
            => /\ ~proc[p].raised
               /\ IsSet(proc[p].result)
               /\ Cardinality({b \in {<<1, DoneLive(p)>>, <<2, DoneMock(p)>>, <<3, DoneEmpty(p)>>} : b[2]}) = 1)
    /\ \A p \in Callers :
            (proc[p].pc \in {"token_wait", "offers_wait", "mock_sleep"}) ~> (proc[p].pc = "done")

C5_Witness ==
    \E p \in Callers : SearchDone(p) /\ proc[p].offers = "exception" /\ IsSet(proc[p].result)

\* C6 (as claimed): at most one token exchange is in flight at any time.
C6_OneExchangeInFlight ==
    Cardinality({p \in Procs : proc[p].pc = "token_wait"}) <= 1

\* C7 (as claimed): a token that get_amadeus_token returns, cached or new, is valid
\* upstream for strictly more than the margin at the moment it is returned.
C7_ReturnedTokenOutlivesMargin ==
    [][\A p \in Procs :
          (proc[p].get \notin {"cache", "ok"} /\ proc'[p].get \in {"cache", "ok"})
          => proc'[p].token[1].valid_until - now' > Margin]_vars

\* C8: a get_amadeus_token call that finds a cached token and now before its expiry
\* returns that token, sends no exchange request and leaves the cache as it is (so a
\* second such call returns the identical token).
C8_FreshCacheServed ==
    [][\A p \in Procs :
          (CallsGetToken(p) /\ CachedTokenFresh)
          => /\ proc'[p].get = "cache"
             /\ proc'[p].token = access_token
             /\ proc'[p].exchanges = 0
             /\ proc'[p].pc /= "token_wait"
             /\ access_token' = access_token
             /\ token_expires_at' = token_expires_at]_vars

C8_Witness ==
    \E p \in Procs :
        /\ proc[p].get = "cache"
        /\ proc[p].token = access_token
        /\ IsSet(proc[p].token)
        /\ proc[p].exchanges = 0

\* C9: a get_amadeus_token call that finds no valid cached token while the client id
\* or the client secret is absent returns no token and sends nothing; an exchange
\* request is only ever sent with both credentials present.
C9_NoCredentialsNoRequest ==
    [][\A p \in Procs :
          /\ (CallsGetToken(p) /\ ~CachedTokenFresh
                /\ (~amadeus_client_id \/ ~amadeus_client_secret))
             => /\ proc'[p].get = "no_credentials"
                /\ proc'[p].token = None
                /\ proc'[p].exchanges = 0
                /\ proc'[p].pc /= "token_wait"
          /\ (proc'[p].exchanges > proc[p].exchanges)
             => (amadeus_client_id /\ amadeus_client_secret)]_vars

C9_Witness ==
    \E p \in Procs :
        /\ proc[p].get = "no_credentials"
        /\ ~amadeus_client_secret
        /\ proc[p].exchanges = 0

\* C10: a get_amadeus_token call whose exchange was answered with a non-success
\* status returns no token and has sent exactly the one request: it does not retry.
C10_RejectedExchangeNotRetried ==
    \A p \in Procs :
        proc[p].get = "non200"
        => /\ proc[p].token = None
           /\ proc[p].exchanges = 1
           /\ proc[p].pc /= "token_wait"
           /\ proc[p].offer_requests = 0

C10_Witness ==
    \E p \in Procs : proc[p].get = "non200" /\ proc[p].exchanges = 1

\* ------------------------------------- the claims about the tool functions

\* What a tool function answers when it turns its arguments down.
Rejections == {"airport_not_found", "invalid_date_format", "start_after_end", "range_too_long"}

\* p's call is a find_best_price call that went past the checks, into the loop.
Scanning(p) == proc[p].kind = "best" /\ proc[p].response \notin Rejections

\* Nothing of a search has run for p's call: no service call, no request, no mock.
NoSearchExecuted(p) ==
    /\ ~proc[p].live_invoked
    /\ proc[p].exchanges = 0
    /\ proc[p].offer_requests = 0
    /\ proc[p].mock_calls = 0
    /\ proc[p].kind = "best" => proc[p].searched = <<>>

\* The least of a non-empty set of numbers.
Least(S) == CHOOSE x \in S : \A y \in S : x <= y

\* C11: a find_best_price call over a valid range calls search_flights once for each
\* date of the range, first to last (its k-th call is for the k-th date), so
\* (end - start).days + 1 times when it ends; each date's entry carries the least
\* total of that date's records, and the best price it reports is the least of the
\* entries' prices.
C11_OneSearchPerDateAndLeastPrice ==
    \A p \in Callers :
        Scanning(p) =>
            LET r == proc[p]
                days == r.end_dt - r.start_dt + 1
                n == Len(r.search_results)
            IN  /\ r.start_dt = strptime(r.args[1].start_date)[1]
                /\ r.end_dt = strptime(r.args[1].end_date)[1]
                /\ Len(r.searched) \in 1..days
                /\ strptime(r.searched[Len(r.searched)]) = Some(r.start_dt + Len(r.searched) - 1)
                /\ r.pc = "done"
                   => /\ Len(r.searched) = days
                      /\ \A i \in 1..days : strptime(r.searched[i]) = Some(r.start_dt + i - 1)
                /\ (r.pc = "scan_sleep" /\ Len(r.result[1].flights) > 0)
                   => /\ n >= 1
                      /\ r.search_results[n].date = r.searched[Len(r.searched)]
                      /\ r.search_results[n].price =
                             Least({r.result[1].flights[i].price.total :
                                        i \in 1..Len(r.result[1].flights)})
                /\ r.response = "best_price"
                   => /\ n >= 1
                      /\ r.best_price =
                             Some(Least({r.search_results[i].price : i \in 1..n}))

C11_Witness ==
    \E p \in Callers :
        /\ proc[p].kind = "best" /\ proc[p].response = "best_price"
        /\ Len(proc[p].searched) = 31
        /\ \E i, j \in 1..Len(proc[p].search_results) :
               proc[p].search_results[i].price < proc[p].search_results[j].price

\* C12: a find_best_price call whose start date is after its end date, or whose
\* range is longer than 30 days, is turned down without any search; a range of 30
\* days or less that does not end before it starts goes into the loop.
C12_RangeChecked ==
    \A p \in Callers :
        LET r == proc[p]
            start == strptime(r.args[1].start_date)
            end == strptime(r.args[1].end_date)
        IN  (/\ r.kind = "best"
             /\ r.args[1].origin \in AIRPORT_DATABASE
             /\ r.args[1].destination \in AIRPORT_DATABASE
             /\ IsSet(start) /\ IsSet(end))
            => /\ start[1] > end[1]
                  => r.pc = "done" /\ r.response = "start_after_end" /\ NoSearchExecuted(p)
               /\ end[1] - start[1] > 30
                  => r.pc = "done" /\ r.response = "range_too_long" /\ NoSearchExecuted(p)
               /\ (start[1] <= end[1] /\ end[1] - start[1] <= 30)
                  => r.response \notin Rejections /\ Len(r.searched) >= 1

C12_Witness ==
    \E p \in Callers :
        /\ proc[p].kind = "best" /\ proc[p].response = "range_too_long"
        /\ strptime(proc[p].args[1].end_date)[1] - strptime(proc[p].args[1].start_date)[1] = 31

\* C13: a find_best_price call that ends its loop with no date having given a
\* record answers "no flights found": no best flight, no exception.
C13_NoRecordsNoFlightsFound ==
    \A p \in Callers :
        (Scanning(p) /\ proc[p].pc = "done" /\ proc[p].search_results = <<>>)
        => /\ proc[p].response = "no_flights_in_range"
           /\ ~proc[p].raised
           /\ proc[p].best_flight = None

C13_Witness ==
    \E p \in Callers :
        /\ proc[p].kind = "best" /\ proc[p].response = "no_flights_in_range"
        /\ Len(proc[p].searched) >= 2
        /\ use_real_api /\ amadeus_client_id /\ ~fallback_to_mock

\* C14: a search_flights or find_best_price call one of whose codes (upper-cased) is
\* not in the directory is answered at once with "airport code not found", and
\* nothing of a search runs for it.
C14_UnknownCodeNoSearch ==
    \A p \in Callers :
        LET r == proc[p]
            codes == IF r.kind = "best" THEN r.args[1] ELSE r.params[1]
        IN  (/\ r.kind \in {"search", "best"}
             /\ (codes.origin \notin AIRPORT_DATABASE \/ codes.destination \notin AIRPORT_DATABASE))
            => /\ r.pc = "done"
               /\ r.response = "airport_not_found"
               /\ NoSearchExecuted(p)

C14_Witness ==
    \E p \in Callers :
        /\ proc[p].kind = "search" /\ proc[p].response = "airport_not_found"
        /\ proc[p].params[1].origin \in AIRPORT_DATABASE
        /\ proc[p].params[1].destination \notin AIRPORT_DATABASE

\* C15 (as claimed): a search_flights or find_best_price call for 0 or 10 passengers
\* (for any number outside 1..9) is turned down and nothing of a search runs for it.
C15_PassengersChecked ==
    \A p \in Callers :
        LET r == proc[p]
            arguments == IF r.kind = "best" THEN r.args[1] ELSE r.params[1]
        IN  (r.kind \in {"search", "best"} /\ arguments.passengers \notin 1..9)
            => /\ r.pc = "done"
               /\ r.response \in Rejections
               /\ NoSearchExecuted(p)

\* C16 (as claimed): a search_flights call whose departure date is no calendar date
\* in the form YYYY-MM-DD is turned down and nothing of a search runs for it.
C16_DepartureDateChecked ==
    \A p \in Callers :
        (proc[p].kind = "search" /\ ~IsSet(strptime(proc[p].params[1].departure_date)))
        => /\ proc[p].pc = "done"
           /\ proc[p].response \in Rejections
           /\ NoSearchExecuted(p)

\* ------------------------------------- the claims about the mock generators

\* Every record of flights flies from params' origin to params' destination.
FliesTheRoute(flights, params) ==
    \A i \in 1..Len(flights) :
        /\ flights[i].departure.airport = params.origin
        /\ flights[i].arrival.airport = params.destination

\* C17: with live lookup off and the mock fallback on, a search between any two
\* airports of the directory returns at least one record, tagged mock_data, and every
\* record leaves from the origin and arrives at the destination; so do the records
\* flight_search_server.py's generator returns.
C17_MockFliesTheRoute ==
    \A p \in Callers :
        LET r == proc[p]
        IN  /\ (r.kind = "search" /\ r.pc = "done" /\ r.response /= "airport_not_found"
                /\ ~use_real_api /\ fallback_to_mock)
               => /\ r.result[1].data_source = "mock_data"
                  /\ Len(r.result[1].flights) >= 1
                  /\ FliesTheRoute(r.result[1].flights, r.params[1])
            /\ (r.kind = "search_full" /\ r.pc = "done" /\ r.response /= "airport_not_found")
               => /\ Len(r.result[1].flights) >= 1
                  /\ FliesTheRoute(r.result[1].flights, r.params[1])

C17_Witness ==
    \E p \in Callers :
        /\ proc[p].kind = "search" /\ proc[p].pc = "done"
        /\ ~use_real_api /\ fallback_to_mock
        /\ proc[p].params[1].origin = "LOS" /\ proc[p].params[1].destination = "NRT"
        /\ Len(proc[p].result[1].flights) >= 1

\* The shape of a record: its stops, its duration and its prices.
Shape(flight) ==
    [stops |-> flight.stops, stop_airports |-> flight.stop_airports,
     duration |-> flight.duration, price |-> flight.price]

\* The shapes of the records a route between two continents gets.
LongHaulShapes ==
    LET flights == search_flights_mock_full(
                       [origin |-> "LAX", destination |-> "LHR",
                        departure_date |-> DateStr(2024, 12, 15), passengers |-> 1]).flights
    IN  {Shape(flights[i]) : i \in 1..Len(flights)}

\* C18 (as claimed): for two airports of one country, neither generator returns a
\* record of the shape of a record it has for routes between continents.
C18_SameCountryNeverLongHaul ==
    \A p \in Callers :
        LET r == proc[p]
        IN  (/\ r.kind \in {"search", "search_full"}
             /\ r.pc = "done" /\ r.response = "results_demo"
             /\ Country[r.params[1].origin] = Country[r.params[1].destination])
            => \A i \in 1..Len(r.result[1].flights) :
                   Shape(r.result[1].flights[i]) \notin LongHaulShapes

\* ------------------------------------------ the claims about cancellation

\* C19 (as claimed): a find_best_price call cancelled while its token exchange is in
\* flight leaves the exchange awaited, or answered and its token cached.
C19_ExchangeOutlivesCancelledScan ==
    \A p \in Callers :
        (/\ proc[p].kind = "best" /\ proc[p].pc = "cancelled"
         /\ proc[p].exchanges = 1
         /\ proc[p].get \notin {"ok", "non200", "exception"})
        => \/ proc[p].get = "pending"
           \/ /\ IsSet(access_token)
              /\ proc[p].token = access_token

\* C20: one search_flights call sends at most one token exchange request and at most
\* one flight-offers request, however they are answered.
C20_OneRequestOfEachPerCall ==
    \A p \in Procs : proc[p].exchanges <= 1 /\ proc[p].offer_requests <= 1

C20_Witness ==
    \E p \in Callers :
        /\ SearchDone(p)
        /\ proc[p].get = "ok" /\ proc[p].exchanges = 1
        /\ proc[p].offers \in {"non200", "exception"} /\ proc[p].offer_requests = 1

\* ------------------------------------------ the claims about the requests

\* p's get_amadeus_token call returns in this step, having ended as one of kinds.
GetTokenEnds(p, kinds) == proc[p].get /= proc'[p].get /\ proc'[p].get \in kinds

\* p's flight-offers request is answered in this step, as one of kinds.
OffersEnd(p, kinds) == proc[p].pc = "offers_wait" /\ proc'[p].offers \in kinds

\* C21: a flight-offers request is sent only in the step in which get_amadeus_token
\* has returned a token to the same call, and it carries that token (the one the
\* cache then holds); a call whose get_amadeus_token returned no token has sent no
\* flight-offers request.
C21_OffersRequestCarriesReturnedToken ==
    [][\A p \in Procs :
          /\ proc'[p].offer_requests > proc[p].offer_requests
             => /\ GetTokenEnds(p, {"ok", "cache"})
                /\ IsSet(proc'[p].token)
                /\ proc'[p].token = access_token'
                /\ proc'[p].pc = "offers_wait"
          /\ proc'[p].get \notin {"ok", "cache"} => proc'[p].offer_requests = 0]_vars

C21_Witness ==
    \E p \in Callers :
        /\ proc[p].pc = "offers_wait" /\ proc[p].get = "cache"
        /\ proc[p].token = access_token /\ proc[p].offer_requests = 1

\* C22: a timeout or transport exception of the token exchange, or of the
\* flight-offers request, leaves the cache and the call exactly where a non-200
\* answer to that request would have left them (but for the record of what the
\* answer was), so the search ends the same under either fallback setting.
C22_TimeoutAsNon200 ==
    [][\A p \in Procs :
          /\ (proc[p].pc = "token_wait" /\ GetTokenEnds(p, {"exception"}))
             => /\ access_token' = access_token
                /\ token_expires_at' = token_expires_at
                /\ proc'[p] =
                       [ExchangeAnswered(proc[p], [kind |-> "non200", expires_in |-> None], None)
                           EXCEPT !.get = "exception"]
          /\ OffersEnd(p, {"exception"})
             => /\ access_token' = access_token
                /\ token_expires_at' = token_expires_at
                /\ proc'[p] =
                       [OffersAnswered(proc[p], [kind |-> "non200", data |-> <<>>])
                           EXCEPT !.offers = "exception"]]_vars

C22_Witness ==
    \E p \in Callers :
        /\ SearchDone(p) /\ fallback_to_mock
        /\ proc[p].get = "ok" /\ proc[p].offers = "exception"
        /\ proc[p].response = "results_demo"
        /\ IsSet(access_token)

\* C23: when an exchange succeeds at time now with the upstream's expires_in t (3600
\* when the answer has none), the cache holds the token just issued and the expiry
\* now + t - 60.
C23_ExpiryIsNowPlusTtlLessMargin ==
    [][\A p \in Procs :
          (proc[p].pc = "token_wait" /\ GetTokenEnds(p, {"ok"}))
          => \E t \in TTLs \cup {3600} :
                 /\ access_token' = Some([issued_at |-> now, valid_until |-> now + t])
                 /\ token_expires_at' = Some(now + t - 60)]_vars

C23_Witness ==
    \E p \in Procs :
        /\ proc[p].get = "ok"
        /\ IsSet(access_token) /\ access_token[1].issued_at = now /\ now > 0
        /\ token_expires_at = Some(now + 3600 - 60)

\* C30 (as claimed): a get_amadeus_token call that returns no token leaves the cached
\* token and the cached expiry as they were, and in every state the two are both
\* unset or are the token and the expiry of one exchange.
C30_FailedCallLeavesCache ==
    /\ [](/\ IsSet(access_token) <=> IsSet(token_expires_at)
          /\ IsSet(access_token)
             => token_expires_at = Some(access_token[1].valid_until - Margin))
    /\ [][\A p \in Procs :
             GetTokenEnds(p, {"no_credentials", "non200", "exception", "bad_expires_in"})
             => /\ access_token' = access_token
                /\ token_expires_at' = token_expires_at]_vars

\* ------------------------------------------------ the claims about the scan

\* C24: the best date of a find_best_price call is the first date of its list whose
\* price is the least of the list, and the best flight and price are that date's: a
\* later date with the same price does not replace it.
C24_EarliestDateWinsTie ==
    \A p \in Callers :
        (Scanning(p) /\ proc[p].pc \in {"scan_sleep", "done"} /\ IsSet(proc[p].best_price))
        => LET r == proc[p]
               n == Len(r.search_results)
           IN  /\ \A i \in 1..n : r.search_results[i].price >= r.best_price[1]
               /\ \E i \in 1..n :
                      /\ r.best_date = Some(r.search_results[i].date)
                      /\ r.best_price = Some(r.search_results[i].price)
                      /\ r.best_flight = Some(r.search_results[i].flight)
                      /\ \A j \in 1..(i - 1) : r.search_results[j].price > r.best_price[1]

C24_Witness ==
    \E p \in Callers :
        /\ proc[p].kind = "best" /\ proc[p].response = "best_price"
        /\ Len(proc[p].search_results) >= 2
        /\ proc[p].search_results[1].price = proc[p].search_results[2].price
        /\ proc[p].best_price = Some(proc[p].search_results[2].price)
        /\ proc[p].best_date = Some(proc[p].search_results[1].date)

\* C25: a find_best_price call starts the search for a date only when the search
\* for the date before has returned; its list gets one entry, at its end, exactly
\* when a date's search returns records, for that date, so the list is in ascending
\* date order with one entry for each date that gave records.
C25_SearchesInTurnListInOrder ==
    [][\A p \in Callers :
          proc'[p].kind = "best" /\ proc'[p].response \notin Rejections
          => LET old == IF proc[p].kind = "best" THEN proc[p] ELSE IdleScan
                 new == proc'[p]
                 n == Len(new.search_results)
                 returned == old.pc /= "scan_sleep" /\ new.pc = "scan_sleep"
             IN  /\ Len(new.searched) /= Len(old.searched)
                    => /\ new.searched = Append(old.searched, new.searched[Len(new.searched)])
                       /\ \/ old.pc = "idle"
                          \/ old.pc = "scan_sleep" /\ IsSet(old.result)
                 /\ (returned /\ Len(new.result[1].flights) > 0)
                    => /\ n = Len(old.search_results) + 1
                       /\ SubSeq(new.search_results, 1, n - 1) = old.search_results
                       /\ new.search_results[n].date = new.searched[Len(new.searched)]
                       /\ n >= 2 => strptime(new.search_results[n - 1].date)[1]
                                        < strptime(new.search_results[n].date)[1]
                 /\ ~(returned /\ Len(new.result[1].flights) > 0)
                    => new.search_results = old.search_results]_vars

C25_Witness ==
    \E p \in Callers :
        /\ proc[p].kind = "best" /\ proc[p].response = "best_price"
        /\ Len(proc[p].searched) = 3
        /\ Len(proc[p].search_results) = 3
        /\ proc[p].search_results[2].data_source = "amadeus_api"
        /\ \A i \in 1..3 : proc[p].search_results[i].date = proc[p].searched[i]

\* ------------------------------------------ the claims about the records

\* p's call of _parse_amadeus_response has returned.
Normalized(p) == proc[p].kind = "parse" /\ proc[p].pc = "done"

\* An offer the normalizer can read: a first itinerary with a segment, and a price.
WellFormed(offer) == Len(offer.segments) >= 1 /\ IsSet(offer.price)

\* C26: a record made of an offer whose first itinerary has N >= 1 segments (record
\* AMADEUS_i is made of the i-th offer) has N - 1 stops and, as stop airports, the
\* arrival airports of all segments but the last, in order; an offer without
\* segments gives no record.
C26_StopsAreSegmentsLessOne ==
    \A p \in Callers :
        Normalized(p) =>
            LET data == proc[p].data
                flights == proc[p].result[1].flights
            IN  /\ \A k \in 1..Len(flights) :
                       LET segments == data[flights[k].id[2]].segments
                           N == Len(segments)
                       IN  /\ N >= 1
                           /\ flights[k].stops = N - 1
                           /\ Len(flights[k].stop_airports) = N - 1
                           /\ \A j \in 1..(N - 1) :
                                  flights[k].stop_airports[j] = segments[j].arrival
                /\ \A i \in 1..Len(data) :
                       Len(data[i].segments) = 0
                       => \A k \in 1..Len(flights) : flights[k].id[2] /= i

C26_Witness ==
    \E p \in Callers :
        /\ Normalized(p)
        /\ \E k \in 1..Len(proc[p].result[1].flights) :
               /\ proc[p].result[1].flights[k].stops = 2
               /\ proc[p].result[1].flights[k].stop_airports = <<"ORD", "ATL">>

\* C27 (as claimed): the records the normalizer returns are, in the order of the
\* list, one for each well-formed offer of the list, the malformed ones left out.
C27_EveryWellFormedOfferKept ==
    \A p \in Callers :
        Normalized(p) =>
            LET data == proc[p].data
                flights == proc[p].result[1].flights
                kept == {flights[k].id[2] : k \in 1..Len(flights)}
            IN  /\ kept = {i \in 1..Len(data) : WellFormed(data[i])}
                /\ \A k \in 1..(Len(flights) - 1) : flights[k].id[2] < flights[k + 1].id[2]

\* C28: in every record of every result, from the normalizer (with the upstream's
\* base or with the estimate) or from either mock generator, base_fare + taxes is
\* the total.
C28_BaseFarePlusTaxesIsTotal ==
    \A p \in Callers :
        IsSet(proc[p].result) =>
            \A k \in 1..Len(proc[p].result[1].flights) :
                LET price == proc[p].result[1].flights[k].price
                IN  price.base_fare + price.taxes = price.total

C28_Witness ==
    \E p \in Callers :
        /\ Normalized(p)
        /\ Len(proc[p].result[1].flights) = 2
        /\ proc[p].result[1].flights[1].price = [total |-> 90000, base_fare |-> 80000, taxes |-> 10000]
        /\ proc[p].result[1].flights[2].price = [total |-> 33333, base_fare |-> 28333, taxes |-> 5000]

\* ------------------------------------------ the claims about the mock shapes

\* The class of a route, as flight_search_server.py's generator decides it.
RouteClass(params) ==
    IF is_long_haul_route(params.origin, params.destination) THEN "long_haul"
    ELSE IF is_international_route(params.origin, params.destination) THEN "international"
    ELSE "domestic"

\* The records the generator of a server file ("search": flight_search_server_clean.py,
\* "search_full": flight_search_server.py) returns for a search.
GeneratedBy(kind, params) ==
    IF kind = "search" THEN search_flights_mock(params).flights
    ELSE search_flights_mock_full(params).flights

\* The total prices of the records that a generator has for the routes of the
\* classes other than class.
TotalsOfOtherClasses(kind, class) ==
    LET directory == IF kind = "search" THEN AIRPORT_DATABASE ELSE AIRPORT_DATABASE_full
        others == {params \in PairInputs(directory) : RouteClass(params) /= class}
    IN  UNION {{GeneratedBy(kind, params)[i].price.total :
                    i \in 1..Len(GeneratedBy(kind, params))} : params \in others}

\* C29 (as claimed): the mock records of a search follow the class of its route: for
\* a long-haul route every record has a stop and costs more than every record of the
\* other two classes; for an international route that is not long-haul there is one
\* record, nonstop; for a domestic route every record has 0 or 1 stops and costs less
\* than every record of the other two classes.
C29_MockShapeFollowsRouteClass ==
    \A p \in Callers :
        LET r == proc[p]
        IN  (r.kind \in {"search", "search_full"} /\ r.pc = "done" /\ r.response = "results_demo")
            => LET flights == r.result[1].flights
                   class == RouteClass(r.params[1])
                   others == TotalsOfOtherClasses(r.kind, class)
               IN  /\ class = "long_haul"
                      => \A i \in 1..Len(flights) :
                             /\ flights[i].stops >= 1
                             /\ \A total \in others : flights[i].price.total > total
                   /\ class = "international"
                      => Len(flights) = 1 /\ flights[1].stops = 0
                   /\ class = "domestic"
                      => \A i \in 1..Len(flights) :
                             /\ flights[i].stops \in {0, 1}
                             /\ \A total \in others : flights[i].price.total < total

====
